---------------------------- MODULE Spec2Model ----------------------------
(***************************************************************************)
(* Model of the room loader (src/src/room_loader.cpp): the formula parser  *)
(* (parseCall, parseFormula), the mesh classification loop of loadRoom,    *)
(* the brush builder and the edge beveler, and of the Door and AutoDoor    *)
(* entities (src/src/entities/door.cpp).                                   *)
(*                                                                         *)
(* Spec runs loadRoom mesh by mesh and SpecReload runs it twice;           *)
(* SpecFormula, SpecParse and SpecBevel call parseFormula, parseCall (one  *)
(* loop iteration per step) and bevelSharpEdges on their own; SpecDoors    *)
(* delivers ticks, switches and events to the two doors.                   *)
(*                                                                         *)
(* Strings are sequences of one-character strings.  Vertex coordinates are *)
(* binary fixed-point numbers with one fractional bit, stored as the       *)
(* integer number of halves (3 stands for 1.5), which a float holds        *)
(* exactly.                                                                *)
(***************************************************************************)
EXTENDS Integers, Sequences, FiniteSets, TLC

VARIABLES
  meshes,     \* the list returned by importMesh(filename)
  idx,        \* position of the range-for loop of loadRoom in meshes (1-based)
  start,      \* Room::start (Vector3i)
  colliders,  \* Room::colliders
  things,     \* Room::things
  status,     \* "loading", "returned", or how the call ended otherwise
  formula,    \* argument of a direct call of parseFormula
  result,     \* outcome of that call, NotCalled before it
  run,        \* number of the current call of loadRoom (1 or 2)
  firstRoom,  \* the Room returned by the first call, NoRoom before it
  bevelMesh,  \* Mesh argument of a direct call of bevelSharpEdges
  bevelBrush, \* Convex argument of that call (passed by reference)
  bevelCalled,\* whether that call has been made
  parser,     \* parseCall run one loop iteration at a time
  autoDoor,   \* AutoDoor (src/src/entities/door.cpp): state, timer, height
  door,       \* Door (src/src/entities/door.cpp): id, solid
  sound       \* sounds played by the last handler call

vars == <<meshes, idx, start, colliders, things, status, formula, result,
          run, firstRoom, bevelMesh, bevelBrush, bevelCalled, parser,
          autoDoor, door, sound>>

\* the variables of the other entry points, which the loader leaves alone
reloadVars == <<run, firstRoom>>
bevelVars == <<bevelMesh, bevelBrush, bevelCalled>>
entityVars == <<autoDoor, door, sound>>
loaderVars == <<meshes, idx, start, colliders, things, status>>
formulaVars == <<formula, result>>

----------------------------------------------------------------------------
(* Bounds *)

MaxMeshes == 2
MaxLen == 4
MaxArgs == 2

----------------------------------------------------------------------------
(* Characters and strings *)

Quote == "\""
NUL == "NUL"

Letters ==
  {"a","b","c","d","e","f","g","h","i","j","k","l","m",
   "n","o","p","q","r","s","t","u","v","w","x","y","z",
   "A","B","C","D","E","F","G","H","I","J","K","L","M",
   "N","O","P","Q","R","S","T","U","V","W","X","Y","Z"}

Digits == <<"0","1","2","3","4","5","6","7","8","9">>

isalnum(c) == c \in Letters \/ \E d \in 1..10 : Digits[d] = c

\* string::substr(pos, n): clamped to the end of the string
substr(s, pos, n) ==
  SubSeq(s, pos + 1, IF pos + n > Len(s) THEN Len(s) ELSE pos + n)

startsWith(s, prefix) == substr(s, 0, Len(prefix)) = prefix

RECURSIVE to_string(_)
to_string(i) ==
  IF i < 10 THEN <<Digits[i + 1]>>
  ELSE to_string(i \div 10) \o <<Digits[(i % 10) + 1]>>

----------------------------------------------------------------------------
(* parseCall: the stream is content + '\0'; a position is an index into it *)

head(content, pos) == IF pos > Len(content) THEN NUL ELSE content[pos]

\* accept(what): TRUE iff the stream advances by one
accept(content, pos, what) ==
  IF head(content, pos) = NUL THEN FALSE ELSE head(content, pos) = what

isIdentifierChar(c) == isalnum(c) \/ c = "_" \/ c = "-"

RECURSIVE parseIdentifier(_, _)
parseIdentifier(content, pos) ==
  IF isIdentifierChar(head(content, pos))
  THEN LET rest == parseIdentifier(content, pos + 1)
       IN  [r |-> <<head(content, pos)>> \o rest.r, pos |-> rest.pos]
  ELSE [r |-> <<>>, pos |-> pos]

\* The loop of parseString leaves only through accept('"').  At the end of
\* the text head() is '\0', accept('\0') refuses to advance, and the loop
\* appends '\0' to r for ever: the call never returns a value ("diverges").
RECURSIVE parseString(_, _)
parseString(content, pos) ==
  IF accept(content, pos, Quote) THEN [kind |-> "ok", r |-> <<>>, pos |-> pos + 1]
  ELSE IF head(content, pos) = NUL THEN [kind |-> "diverges", r |-> <<>>, pos |-> pos]
  ELSE LET rest == parseString(content, pos + 1)
       IN  [kind |-> rest.kind, r |-> <<head(content, pos)>> \o rest.r, pos |-> rest.pos]

parseArgument(content, pos) ==
  IF accept(content, pos, Quote) THEN parseString(content, pos + 1)
  ELSE LET id == parseIdentifier(content, pos)
       IN  [kind |-> "ok", r |-> id.r, pos |-> id.pos]

\* while(!accept(')')) { if(!first) expect(','); r.push_back(parseArgument()); }
RECURSIVE parseArguments(_, _, _, _)
parseArguments(content, pos, first, r) ==
  IF accept(content, pos, ")") THEN [kind |-> "ok", words |-> r, what |-> ""]
  ELSE IF ~first /\ ~accept(content, pos, ",")
       THEN [kind |-> "error", words |-> <<>>, what |-> "Expected ','"]
  ELSE LET arg == parseArgument(content, IF first THEN pos ELSE pos + 1)
       IN  IF arg.kind = "ok"
           THEN parseArguments(content, arg.pos, FALSE, Append(r, arg.r))
           ELSE [kind |-> "diverges", words |-> <<>>, what |-> ""]

parseCall(content) ==
  LET id == parseIdentifier(content, 1)
  IN  IF accept(content, id.pos, "(")
      THEN parseArguments(content, id.pos + 1, TRUE, <<id.r>>)
      ELSE [kind |-> "ok", words |-> <<id.r>>, what |-> ""]

\* r[key] = value on a std::map
MapPut(r, key, value) ==
  [k \in DOMAIN r \cup {key} |-> IF k = key THEN value ELSE r[k]]

EmptyMap == [k \in {} |-> <<>>]

RECURSIVE fillConfig(_, _, _)
fillConfig(words, i, r) ==
  IF i >= Len(words) THEN r
  ELSE fillConfig(words, i + 1, MapPut(r, to_string(i), words[i + 1]))

parseFormulaKeepName(text) ==
  LET call == parseCall(text)
  IN  IF call.kind = "ok"
      THEN [kind |-> "ok", typeName |-> call.words[1],
            config |-> fillConfig(call.words, 0, EmptyMap), what |-> ""]
      ELSE [kind |-> call.kind, typeName |-> <<>>, config |-> EmptyMap,
            what |-> call.what]

parseFormula(text) ==
  LET call == parseCall(text)
  IN  IF call.kind = "ok"
      THEN [kind |-> "ok", typeName |-> call.words[1],
            config |-> fillConfig(Tail(call.words), 0, EmptyMap), what |-> ""]
      ELSE [kind |-> call.kind, typeName |-> <<>>, config |-> EmptyMap,
            what |-> call.what]

----------------------------------------------------------------------------
(* Vectors.  A Vector3f with exactly representable components is a record  *)
(* of integers (in halves).                                                *)

Vec(x, y, z) == [x |-> x, y |-> y, z |-> z]

toVector3f(v) == Vec(v.x, v.y, v.z)

VecSub(a, b) == Vec(a.x - b.x, a.y - b.y, a.z - b.z)

VecAdd(a, b) == Vec(a.x + b.x, a.y + b.y, a.z + b.z)

crossProduct(a, b) ==
  Vec(a.y * b.z - a.z * b.y, a.z * b.x - a.x * b.z, a.x * b.y - a.y * b.x)

Dot(a, b) == a.x * b.x + a.y * b.y + a.z * b.z

Abs(n) == IF n < 0 THEN -n ELSE n

RECURSIVE Gcd(_, _)
Gcd(a, b) == IF b = 0 THEN a ELSE Gcd(b, a % b)

\* The shortest integer vector with the direction of v (v is not zero)
Primitive(v) ==
  LET g == Gcd(Gcd(Abs(v.x), Abs(v.y)), Abs(v.z))
  IN  Vec(v.x \div g, v.y \div g, v.z \div g)

\* A normalised vector is represented exactly by the set of primitive
\* directions d whose unit vectors d/|d| add up to a positive multiple of
\* it: {d} for normalize(v) with v along d, {d1, d2} for the normalised sum
\* of two unit vectors, and {} for the normalisation of the zero vector,
\* which has no direction.
normalize(v) == IF v = Vec(0, 0, 0) THEN {} ELSE {Primitive(v)}

\* normalize(N1 + N2) for two normalised vectors.  The sum of two opposite
\* unit vectors is exactly the zero vector.
normalizeSum(N1, N2) ==
  IF N1 = {} \/ N2 = {} THEN {}
  ELSE IF \E d1 \in N1, d2 \in N2 : VecAdd(d1, d2) = Vec(0, 0, 0) THEN {}
  ELSE N1 \cup N2

\* dotProduct(N1, N2) > 0 for two normalised face normals; a comparison
\* with a vector that has no direction is false.
dotProductPositive(N1, N2) ==
  \E d1 \in N1, d2 \in N2 : Dot(d1, d2) > 0

\* dotProduct(N, A) for a normalised N and an exact A: the numerators
\* dot(d, A) of the terms dot(d, A)/|d|, one per direction d of N.  For a
\* face normal {d} this is the number dot(d, A)/|d|.
dotProduct(N, A) == [d \in N |-> Dot(d, A)]

\* float to int conversion (r.start.x = pos.x): truncation toward zero
toIntFloor(h) == h \div 2

toInt(h) == IF h >= 0 THEN h \div 2 ELSE -((-h) \div 2)

\* mesh.vertices[i] for a 0-based index i
vertexAt(mesh, i) == mesh.vertices[i + 1]

computeNormal(mesh, i1, i2, i3) ==
  LET A == toVector3f(vertexAt(mesh, i1))
      B == toVector3f(vertexAt(mesh, i2))
      C == toVector3f(vertexAt(mesh, i3))
  IN  normalize(crossProduct(VecSub(B, A), VecSub(C, A)))

\* operator < (Vector3f, Vector3f)
VecLess(a, b) ==
  IF a.x # b.x THEN a.x < b.x
  ELSE IF a.y # b.y THEN a.y < b.y
  ELSE IF a.z # b.z THEN a.z < b.z
  ELSE FALSE

\* EdgeId::mk: { min(a, b), max(a, b) }
EdgeIdMk(a, b) ==
  [v1 |-> IF VecLess(b, a) THEN b ELSE a, v2 |-> IF VecLess(a, b) THEN b ELSE a]

\* EdgeId::operator <
EdgeLess(e, other) ==
  IF e.v1 # other.v1 THEN VecLess(e.v1, other.v1) ELSE VecLess(e.v2, other.v2)

----------------------------------------------------------------------------
(* bevelSharpEdges *)

\* The three edges[EdgeId::mk(..)].normals.push_back(N) of face number k
\* (1-based), in the order they are executed
facePushes(mesh, k) ==
  LET f == mesh.faces[k]
      N == computeNormal(mesh, f.i1, f.i2, f.i3)
      A == toVector3f(vertexAt(mesh, f.i1))
      B == toVector3f(vertexAt(mesh, f.i2))
      C == toVector3f(vertexAt(mesh, f.i3))
  IN  << [edge |-> EdgeIdMk(A, B), normal |-> N],
         [edge |-> EdgeIdMk(B, C), normal |-> N],
         [edge |-> EdgeIdMk(C, A), normal |-> N] >>

RECURSIVE allPushes(_, _)
allPushes(mesh, k) ==
  IF k > Len(mesh.faces) THEN <<>>
  ELSE facePushes(mesh, k) \o allPushes(mesh, k + 1)

\* edges[e].normals once the first loop is over
RECURSIVE normalsOf(_, _)
normalsOf(pushes, e) ==
  IF pushes = <<>> THEN <<>>
  ELSE IF Head(pushes).edge = e
       THEN <<Head(pushes).normal>> \o normalsOf(Tail(pushes), e)
       ELSE normalsOf(Tail(pushes), e)

\* The keys of the std::map in iteration order (ascending EdgeId)
RECURSIVE edgesInOrder(_)
edgesInOrder(keys) ==
  IF keys = {} THEN <<>>
  ELSE LET e == CHOOSE m \in keys : \A o \in keys \ {m} : EdgeLess(m, o)
       IN  <<e>> \o edgesInOrder(keys \ {e})

\* The second loop: one bevel plane per edge with two incident normals
\* whose dot product is not positive
\* a second loop that takes the normal of the face recorded first as the
\* normal of the bevel plane
RECURSIVE bevelPlanesFirstNormal(_, _)
bevelPlanesFirstNormal(pushes, order) ==
  IF order = <<>> THEN <<>>
  ELSE LET e == Head(order)
           normals == normalsOf(pushes, e)
           rest == bevelPlanesFirstNormal(pushes, Tail(order))
       IN  IF Len(normals) # 2 THEN rest
           ELSE IF dotProductPositive(normals[1], normals[2]) THEN rest
           ELSE LET N3 == normals[1]
                    D == dotProduct(N3, e.v1)
                IN  <<[normal |-> N3, offset |-> D]>> \o rest

RECURSIVE bevelPlanes(_, _)
bevelPlanes(pushes, order) ==
  IF order = <<>> THEN <<>>
  ELSE LET e == Head(order)
           normals == normalsOf(pushes, e)
           rest == bevelPlanes(pushes, Tail(order))
       IN  IF Len(normals) # 2 THEN rest
           ELSE IF dotProductPositive(normals[1], normals[2]) THEN rest
           ELSE LET N3 == normalizeSum(normals[1], normals[2])
                    D == dotProduct(N3, e.v1)
                IN  <<[normal |-> N3, offset |-> D]>> \o rest

\* a beveler that rebuilds the brush from the bevel planes alone
bevelSharpEdgesRebuilt(mesh, brush) ==
  LET pushes == allPushes(mesh, 1)
      keys == {pushes[k].edge : k \in 1..Len(pushes)}
  IN  [planes |-> bevelPlanes(pushes, edgesInOrder(keys))]

bevelSharpEdges(mesh, brush) ==
  LET pushes == allPushes(mesh, 1)
      keys == {pushes[k].edge : k \in 1..Len(pushes)}
  IN  [planes |-> brush.planes \o bevelPlanes(pushes, edgesInOrder(keys))]

----------------------------------------------------------------------------
(* loadRoom *)

FStart == <<"f", ".", "s", "t", "a", "r", "t">>
NoCollide == <<"n", "o", "c", "o", "l", "l", "i", "d", "e", ".">>
FDot == <<"f", ".">>

\* The if-chain of the loop body: the first test that succeeds decides
routeFormulaFirst(mesh) ==
  IF mesh.vertices = <<>> THEN "empty"
  ELSE IF startsWith(mesh.name, FDot) THEN "thing"
  ELSE IF startsWith(mesh.name, FStart) THEN "spawn"
  ELSE IF startsWith(mesh.name, NoCollide) THEN "nocollide"
  ELSE "brush"

routeNameFirst(mesh) ==
  IF startsWith(mesh.name, FStart) THEN "spawn"
  ELSE IF startsWith(mesh.name, NoCollide) THEN "nocollide"
  ELSE IF startsWith(mesh.name, FDot) THEN "thing"
  ELSE IF mesh.vertices = <<>> THEN "empty"
  ELSE "brush"

routeNoSkip(mesh) ==
  IF mesh.vertices = <<>> THEN "empty"
  ELSE IF startsWith(mesh.name, FStart) THEN "spawn"
  ELSE IF startsWith(mesh.name, FDot) THEN "thing"
  ELSE "brush"

route(mesh) ==
  IF mesh.vertices = <<>> THEN "empty"
  ELSE IF startsWith(mesh.name, FStart) THEN "spawn"
  ELSE IF startsWith(mesh.name, NoCollide) THEN "nocollide"
  ELSE IF startsWith(mesh.name, FDot) THEN "thing"
  ELSE "brush"

\* pos += toVector3f(v) over the vertices; pos * (1.0 / size) is kept as the
\* exact quotient sum / count
RECURSIVE sumVertices(_, _)
sumVertices(vertices, k) ==
  IF k > Len(vertices) THEN Vec(0, 0, 0)
  ELSE VecAdd(toVector3f(vertices[k]), sumVertices(vertices, k + 1))

centroid(mesh) ==
  [sum |-> sumVertices(mesh.vertices, 1), count |-> Len(mesh.vertices)]

\* Plane { N, D } of face number k (1-based)
facePlane(mesh, k) ==
  LET face == mesh.faces[k]
      N == computeNormal(mesh, face.i1, face.i2, face.i3)
      A == toVector3f(vertexAt(mesh, face.i1))
      D == dotProduct(N, A)
  IN  [normal |-> N, offset |-> D]

RECURSIVE facePlanesDeduplicated(_, _)
facePlanesDeduplicated(mesh, k) ==
  IF k > Len(mesh.faces) THEN <<>>
  ELSE IF \E j \in 1..(k - 1) : facePlane(mesh, j) = facePlane(mesh, k)
       THEN facePlanesDeduplicated(mesh, k + 1)
       ELSE <<facePlane(mesh, k)>> \o facePlanesDeduplicated(mesh, k + 1)

\* The planes pushed by the loop over mesh.faces, from face k on
RECURSIVE facePlanes(_, _)
facePlanes(mesh, k) ==
  IF k > Len(mesh.faces) THEN <<>>
  ELSE <<facePlane(mesh, k)>> \o facePlanes(mesh, k + 1)

\* mesh.vertices[mesh.faces[0].i1], converted component by component
spawnPosition(mesh) ==
  LET pos == vertexAt(mesh, mesh.faces[1].i1)
  IN  Vec(toInt(pos.x), toInt(pos.y), toInt(pos.z))

thisMesh == meshes[idx]

InLoop == status = "loading" /\ idx <= Len(meshes)

----------------------------------------------------------------------------
(* Inputs: mesh names, geometry, formula texts *)

Door == <<"d", "o", "o", "r">>
Crate == <<"c", "r", "a", "t", "e">>
Wall == <<"w", "a", "l", "l">>

Names ==
  { FStart,                                             \* f.start
    FStart \o <<"e", "r">>,                             \* f.starter
    FStart \o <<"(", "3">>,                             \* f.start(3
    NoCollide \o Wall,                                  \* nocollide.wall
    FDot \o Door \o <<"(", "3", ")">>,                  \* f.door(3)
    FDot \o Crate,                                      \* f.crate
    FDot \o Door \o <<"(", "3">>,                       \* f.door(3
    FDot \o Door \o <<"(", ",", ")">>,                  \* f.door(,)
    FDot \o Door \o <<"(", "3", ")", ".", "0", "0", "1">>,  \* f.door(3).001
    FDot,                                               \* f.
    FDot \o Door \o <<"(", Quote, "a", "b", "c">>,      \* f.door("abc
    FDot \o Door \o <<"(", "a", ",", ")">>,             \* f.door(a,)
    FDot \o Door \o <<" ", "3">>,                       \* f.door 3
    Wall,                                               \* wall
    <<"n", "o", "c", "o", "l", "l", "i", "d", "e">>,    \* nocollide
    <<"f">> }                                           \* f

Vtx(x, y, z) == [x |-> x, y |-> y, z |-> z]
Tri(i1, i2, i3) == [i1 |-> i1, i2 |-> i2, i3 |-> i3]

\* (-1.5, 2.5, 0.5), (1.0, 2.0, 3.0), (-3.5, -0.5, 1.5)
VerticesB == << Vtx(-3, 5, 1), Vtx(2, 4, 6), Vtx(-7, -1, 3) >>
\* the corner of the unit cube at the origin and its three neighbours
VerticesA == << Vtx(0, 0, 0), Vtx(2, 0, 0), Vtx(0, 2, 0), Vtx(0, 0, 2) >>
\* a unit square in the plane z = 0
VerticesQ == << Vtx(0, 0, 0), Vtx(2, 0, 0), Vtx(2, 2, 0), Vtx(0, 2, 0) >>

GeomEmpty == [vertices |-> <<>>, faces |-> <<>>]
GeomNoFaces == [vertices |-> VerticesB, faces |-> <<>>]
GeomTriangle == [vertices |-> VerticesB, faces |-> <<Tri(2, 0, 1)>>]
GeomExample == [vertices |-> VerticesB, faces |-> <<Tri(1, 2, 0), Tri(2, 0, 1)>>]
GeomSquare == [vertices |-> VerticesQ, faces |-> <<Tri(0, 1, 2), Tri(0, 2, 3)>>]
GeomDuplicate == [vertices |-> VerticesA, faces |-> <<Tri(0, 2, 1), Tri(0, 2, 1)>>]
GeomDegenerate == [vertices |-> VerticesA, faces |-> <<Tri(0, 0, 1), Tri(0, 1, 3)>>]
GeomTetrahedron ==
  [vertices |-> VerticesA,
   faces |-> <<Tri(0, 2, 1), Tri(0, 1, 3), Tri(0, 3, 2), Tri(1, 2, 3)>>]

\* one triangle, given with both windings
GeomSheet == [vertices |-> VerticesA, faces |-> <<Tri(0, 1, 2), Tri(0, 2, 1)>>]
\* one triangle with a repeated vertex
GeomSliver == [vertices |-> VerticesA, faces |-> <<Tri(0, 0, 1)>>]

Geometries ==
  { GeomEmpty, GeomNoFaces, GeomTriangle, GeomExample, GeomSquare,
    GeomDuplicate, GeomDegenerate, GeomTetrahedron, GeomSheet, GeomSliver }

MkMesh(name, g) == [name |-> name, vertices |-> g.vertices, faces |-> g.faces]

\* Every name with and without vertices, and every geometry as a spawn
\* marker and as a collision mesh
Meshes ==
  {MkMesh(n, g) : n \in Names, g \in {GeomEmpty, GeomTriangle}}
  \cup {MkMesh(n, g) : n \in {FStart, Wall}, g \in Geometries}

Scenes == UNION {[1..k -> Meshes] : k \in 0..MaxMeshes}

\* What a read of faces[0] of an empty vector can leave in Room::start
GarbageStarts == {Vec(-7, -7, -7), Vec(9, 0, 1)}

Alphabet == {"a", "3", "-", "(", ")", ",", Quote, " "}

Texts == UNION {[1..k -> Alphabet] : k \in 0..MaxLen}

\* Well-formed formulas, written out from a name and arguments
BareArg(val) == [quoted |-> FALSE, val |-> val]
QuotedArg(val) == [quoted |-> TRUE, val |-> val]

GenNames == {Door, Crate, <<"d", "-", "1">>}

GenArgs ==
  { BareArg(<<"3">>), BareArg(<<"a", "_", "b">>),
    QuotedArg(<<>>), QuotedArg(<<"a", " ", "b">>), QuotedArg(<<"3", ",", "(">>) }

\* twelve arguments: a1, 32, a3, 34, ...
LongArgs ==
  [i \in 1..12 |->
     BareArg(<<(IF i % 2 = 1 THEN "a" ELSE "3"), Digits[(i % 10) + 1]>>)]

GenArgLists == UNION {[1..k -> GenArgs] : k \in 0..MaxArgs} \cup {LongArgs}

Render(arg) == IF arg.quoted THEN <<Quote>> \o arg.val \o <<Quote>> ELSE arg.val

RECURSIVE RenderList(_)
RenderList(args) ==
  IF args = <<>> THEN <<>>
  ELSE IF Len(args) = 1 THEN Render(args[1])
  ELSE Render(args[1]) \o <<",">> \o RenderList(Tail(args))

Format(name, args) == name \o <<"(">> \o RenderList(args) \o <<")">>

\* Two arguments with no comma between them
MissingCommaTexts ==
  { n \o <<"(">> \o Render(a) \o sep \o Render(b) \o <<")">> :
      n \in GenNames, sep \in {<<>>, <<" ">>},
      a \in GenArgs, b \in {x \in GenArgs : x.quoted} }

FormulaInputs ==
  Texts
  \cup {Format(n, as) : n \in GenNames, as \in GenArgLists}
  \cup GenNames
  \cup {substr(n, 2, Len(n)) : n \in Names}
  \cup {Door \o <<"(", "a", ",", ")">>, Door \o <<" ", "3">>}
  \cup MissingCommaTexts

NotCalled == [kind |-> "not_called", typeName |-> <<>>, config |-> EmptyMap, what |-> ""]

----------------------------------------------------------------------------
(* loadRoom, one action per way through the loop body *)

\* the entry points that a specification does not exercise stay idle
NoRoom == [start |-> <<>>, colliders |-> <<>>, things |-> <<>>, valid |-> FALSE]
NoMesh == [name |-> <<>>, vertices |-> <<>>, faces |-> <<>>]
NoParser == [pc |-> "idle", content |-> <<>>, pos |-> 0, r |-> <<>>,
             words |-> <<>>, first |-> TRUE]
NoAutoDoor == [state |-> "none", timer |-> 0, height |-> 0]
NoDoor == [id |-> 0, solid |-> FALSE]

FormulaIdle == formula = <<>> /\ result = NotCalled
ReloadIdle == run = 1 /\ firstRoom = NoRoom
BevelIdle == bevelMesh = NoMesh /\ bevelBrush = [planes |-> <<>>]
             /\ bevelCalled = FALSE
ParserIdle == parser = NoParser
EntitiesIdle == autoDoor = NoAutoDoor /\ door = NoDoor /\ sound = 0
LoaderIdle ==
  /\ meshes = <<>>
  /\ idx = 1
  /\ start = Vec(0, 0, 2)
  /\ colliders = <<>>
  /\ things = <<>>
  /\ status = "not_called"

Init ==
  /\ meshes \in Scenes
  /\ idx = 1
  /\ start = Vec(0, 0, 2)
  /\ colliders = <<>>
  /\ things = <<>>
  /\ status = "loading"
  /\ FormulaIdle
  /\ ReloadIdle
  /\ BevelIdle
  /\ ParserIdle
  /\ EntitiesIdle

\* if(mesh.vertices.empty()) { warning; continue; }
SkipEmpty ==
  /\ InLoop
  /\ route(thisMesh) = "empty"
  /\ idx' = idx + 1
  /\ UNCHANGED <<meshes, start, colliders, things, status, formula, result,
               reloadVars, bevelVars, parser, entityVars>>

SetStartOnce ==
  /\ InLoop
  /\ route(thisMesh) = "spawn"
  /\ thisMesh.faces # <<>>
  /\ start' = IF \E j \in 1..(idx - 1) : route(meshes[j]) = "spawn"
              THEN start ELSE spawnPosition(thisMesh)
  /\ idx' = idx + 1
  /\ UNCHANGED <<meshes, colliders, things, status, formula, result,
               reloadVars, bevelVars, parser, entityVars>>

\* if(startsWith(name, "f.start")) { r.start = vertices[faces[0].i1]; continue; }
SetStart ==
  /\ InLoop
  /\ route(thisMesh) = "spawn"
  /\ thisMesh.faces # <<>>
  /\ start' = spawnPosition(thisMesh)
  /\ idx' = idx + 1
  /\ UNCHANGED <<meshes, colliders, things, status, formula, result,
               reloadVars, bevelVars, parser, entityVars>>

\* The same branch for a mesh without faces: faces[0] is read from an empty
\* vector, which is undefined.  The read faults, or yields some position.
SetStartNoFaces ==
  /\ InLoop
  /\ route(thisMesh) = "spawn"
  /\ thisMesh.faces = <<>>
  /\ \/ /\ status' = "crashed"
        /\ UNCHANGED <<idx, start>>
     \/ /\ start' \in GarbageStarts
        /\ idx' = idx + 1
        /\ UNCHANGED status
  /\ UNCHANGED <<meshes, colliders, things, formula, result,
               reloadVars, bevelVars, parser, entityVars>>

\* if(startsWith(name, "nocollide.")) continue;
SkipNoCollide ==
  /\ InLoop
  /\ route(thisMesh) = "nocollide"
  /\ idx' = idx + 1
  /\ UNCHANGED <<meshes, start, colliders, things, status, formula, result,
               reloadVars, bevelVars, parser, entityVars>>

PlaceThingKeepPrefix ==
  /\ InLoop
  /\ route(thisMesh) = "thing"
  /\ LET parsed == parseFormula(thisMesh.name)
     IN  /\ parsed.kind = "ok"
         /\ things' = Append(things, [pos |-> centroid(thisMesh),
                                       typeName |-> parsed.typeName,
                                       config |-> parsed.config])
  /\ idx' = idx + 1
  /\ UNCHANGED <<meshes, start, colliders, status, formula, result,
               reloadVars, bevelVars, parser, entityVars>>

\* if(startsWith(name, "f.")) { ...; r.things.push_back(...); continue; }
PlaceThing ==
  /\ InLoop
  /\ route(thisMesh) = "thing"
  /\ LET parsed == parseFormula(substr(thisMesh.name, 2, Len(thisMesh.name)))
     IN  /\ parsed.kind = "ok"
         /\ things' = Append(things, [pos |-> centroid(thisMesh),
                                       typeName |-> parsed.typeName,
                                       config |-> parsed.config])
  /\ idx' = idx + 1
  /\ UNCHANGED <<meshes, start, colliders, status, formula, result,
               reloadVars, bevelVars, parser, entityVars>>

\* The same branch when parseFormula does not return: the runtime_error of
\* expect() leaves loadRoom, or parseString never ends
PlaceThingFails ==
  /\ InLoop
  /\ route(thisMesh) = "thing"
  /\ LET parsed == parseFormula(substr(thisMesh.name, 2, Len(thisMesh.name)))
     IN  \/ /\ parsed.kind = "error"
            /\ status' = "parse_error"
         \/ /\ parsed.kind = "diverges"
            /\ status' = "diverged"
  /\ UNCHANGED <<meshes, idx, start, colliders, things, formula, result,
               reloadVars, bevelVars, parser, entityVars>>

\* Convex brush; one plane per face; bevelSharpEdges; r.colliders.push_back
BuildBrush ==
  /\ InLoop
  /\ route(thisMesh) = "brush"
  /\ LET faceBrush == [planes |-> facePlanes(thisMesh, 1)]
     IN  colliders' = Append(colliders, bevelSharpEdges(thisMesh, faceBrush))
  /\ idx' = idx + 1
  /\ UNCHANGED <<meshes, start, things, status, formula, result,
               reloadVars, bevelVars, parser, entityVars>>

\* return r;
Return ==
  /\ status = "loading"
  /\ idx > Len(meshes)
  /\ status' = "returned"
  /\ UNCHANGED <<meshes, idx, start, colliders, things, formula, result,
               reloadVars, bevelVars, parser, entityVars>>

Next ==
  \/ SkipEmpty
  \/ SetStart
  \/ SetStartNoFaces
  \/ SkipNoCollide
  \/ PlaceThing
  \/ PlaceThingFails
  \/ BuildBrush
  \/ Return

Spec == Init /\ [][Next]_vars

----------------------------------------------------------------------------
(* parseFormula called on its own *)

InitFormula ==
  /\ formula \in FormulaInputs
  /\ result = NotCalled
  /\ meshes = <<>>
  /\ idx = 1
  /\ start = Vec(0, 0, 2)
  /\ colliders = <<>>
  /\ things = <<>>
  /\ status = "not_called"
  /\ ReloadIdle
  /\ BevelIdle
  /\ ParserIdle
  /\ EntitiesIdle

CallParseFormula ==
  /\ result = NotCalled
  /\ status = "not_called"
  /\ result' = parseFormula(formula)
  /\ UNCHANGED <<meshes, idx, start, colliders, things, status, formula,
               reloadVars, bevelVars, parser, entityVars>>

NextFormula == CallParseFormula

SpecFormula == InitFormula /\ [][NextFormula]_vars

----------------------------------------------------------------------------
(* Properties of loadRoom *)

\* name begins with the characters of prefix
Begins(name, prefix) ==
  /\ Len(name) >= Len(prefix)
  /\ \A k \in 1..Len(prefix) : name[k] = prefix[k]

\* The meshes among the first upto that the naming convention makes spawn
\* markers, entity placements and collision meshes
SpawnMeshes(upto) ==
  {j \in 1..upto : meshes[j].vertices # <<>> /\ Begins(meshes[j].name, FStart)}

ThingMeshes(upto) ==
  {j \in 1..upto : /\ meshes[j].vertices # <<>>
                   /\ Begins(meshes[j].name, FDot)
                   /\ ~Begins(meshes[j].name, FStart)}

BrushMeshes(upto) ==
  {j \in 1..upto : /\ meshes[j].vertices # <<>>
                   /\ ~Begins(meshes[j].name, FStart)
                   /\ ~Begins(meshes[j].name, NoCollide)
                   /\ ~Begins(meshes[j].name, FDot)}

\* The k-th smallest element of a set of indices
Nth(S, k) == CHOOSE j \in S : Cardinality({i \in S : i <= j}) = k

\* k is h/2 with the fractional part dropped
IsTruncation(h, k) ==
  IF h >= 0 THEN 2 * k <= h /\ h < 2 * k + 2
  ELSE 2 * k >= h /\ h > 2 * k - 2

\* p is the position of the vertex the first index of the first triangle
\* of mesh refers to, truncated
IsFirstTriangleVertex(mesh, p) ==
  LET v == mesh.vertices[mesh.faces[1].i1 + 1]
  IN  IsTruncation(v.x, p.x) /\ IsTruncation(v.y, p.y) /\ IsTruncation(v.z, p.z)

\* C1: a mesh whose name starts with "nocollide." contributes nothing to the
\* Room: the step that handles it leaves colliders, things and start alone.
C1_NoCollideContributesNothing ==
  [][ (InLoop /\ Begins(thisMesh.name, NoCollide))
        => (colliders' = colliders /\ things' = things /\ start' = start) ]_vars

\* a "nocollide." mesh with vertices and faces has been handled
C1_Witness ==
  /\ idx > 1
  /\ Begins(meshes[idx - 1].name, NoCollide)
  /\ meshes[idx - 1].vertices # <<>>
  /\ meshes[idx - 1].faces # <<>>
  /\ status = "returned"

\* C2: a mesh with vertices takes exactly one of the four paths, the first
\* whose rule matches: "f.start" (spawn: no Thing, no Convex, no parse),
\* "nocollide." (nothing), "f." (a Thing or a failed parse, no Convex),
\* otherwise one Convex.
C2_FirstMatchingRuleDecides ==
  [][ (InLoop /\ thisMesh.vertices # <<>>) =>
        IF Begins(thisMesh.name, FStart)
        THEN /\ things' = things
             /\ colliders' = colliders
             /\ status' \notin {"parse_error", "diverged"}
        ELSE IF Begins(thisMesh.name, NoCollide)
        THEN /\ things' = things /\ colliders' = colliders /\ start' = start
             /\ status' = status /\ idx' = idx + 1
        ELSE IF Begins(thisMesh.name, FDot)
        THEN /\ colliders' = colliders /\ start' = start
             /\ \/ Len(things') = Len(things) + 1 /\ status' = status
                \/ things' = things /\ status' \in {"parse_error", "diverged"}
        ELSE /\ Len(colliders') = Len(colliders) + 1
             /\ things' = things /\ start' = start /\ status' = status ]_vars

\* the mesh "f.start(3", with vertices and a face, has been handled as a
\* spawn marker and the load went on
C2_Witness ==
  /\ idx > 1
  /\ meshes[idx - 1].name = FStart \o <<"(", "3">>
  /\ meshes[idx - 1].faces # <<>>
  /\ status = "returned"
  /\ things = <<>>
  /\ colliders = <<>>
  /\ start # Vec(0, 0, 2)

\* C3: a mesh with no vertices is skipped whatever its name: the Room is
\* unchanged, the load does not fail, and the loop goes on to the next mesh.
C3_EmptyMeshSkipped ==
  [][ (InLoop /\ thisMesh.vertices = <<>>)
        => /\ start' = start /\ colliders' = colliders /\ things' = things
           /\ status' = "loading"
           /\ idx' = idx + 1 ]_vars

\* "f.door(3" without vertices came first, and the mesh after it was built
\* into a brush
C3_Witness ==
  /\ status = "returned"
  /\ Len(meshes) = 2
  /\ meshes[1].vertices = <<>>
  /\ meshes[1].name = FDot \o Door \o <<"(", "3">>
  /\ Len(colliders) = 1
  /\ things = <<>>

\* C4: handling a spawn marker that has vertices and a triangle sets
\* Room.start to the vertex of the first index of its first triangle, each
\* coordinate truncated toward zero.
C4_StartIsFirstTriangleVertex ==
  [][ ( /\ InLoop
        /\ thisMesh.vertices # <<>>
        /\ thisMesh.faces # <<>>
        /\ Begins(thisMesh.name, FStart) )
        => IsFirstTriangleVertex(thisMesh, start') ]_vars

\* the marker's vertex (-3.5, -0.5, 1.5), which is neither its first vertex
\* nor its centroid, gave start = (-3, 0, 1)
C4_Witness ==
  /\ idx > 1
  /\ Begins(meshes[idx - 1].name, FStart)
  /\ meshes[idx - 1].faces # <<>>
  /\ vertexAt(meshes[idx - 1], meshes[idx - 1].faces[1].i1) = Vtx(-7, -1, 3)
  /\ meshes[idx - 1].vertices[1] # Vtx(-7, -1, 3)
  /\ start = Vec(-3, 0, 1)

\* C5 as stated: with several spawn markers (each with vertices and a
\* triangle), Room.start of the returned Room comes from the first one.
C5_FirstSpawnWins ==
  LET S == SpawnMeshes(Len(meshes))
  IN  ( /\ status = "returned"
        /\ Cardinality(S) >= 2
        /\ \A j \in S : meshes[j].faces # <<>> )
      => IsFirstTriangleVertex(meshes[Nth(S, 1)], start)

\* C5 amended: Room.start of the returned Room comes from the last spawn
\* marker with vertices (when it has a triangle to take the position from).
C5_LastSpawnWins ==
  LET S == SpawnMeshes(Len(meshes))
      last == Nth(S, Cardinality(S))
  IN  (status = "returned" /\ S # {} /\ meshes[last].faces # <<>>)
      => IsFirstTriangleVertex(meshes[last], start)

\* two spawn markers at different positions, the Room returned
C5_Witness ==
  LET S == SpawnMeshes(Len(meshes))
  IN  /\ status = "returned"
      /\ Cardinality(S) = 2
      /\ \A j \in S : meshes[j].faces # <<>>
      /\ IsFirstTriangleVertex(meshes[Nth(S, 2)], start)
      /\ ~IsFirstTriangleVertex(meshes[Nth(S, 1)], start)

\* C6: Room.things holds exactly one Thing per handled "f." mesh (with
\* vertices, not "f.start"), in mesh order, with the typeName and config
\* parseFormula gives for the name without its first two characters; the
\* colliders are as many as the collision meshes, so none comes from an
\* "f." mesh.
C6_OneThingPerFormulaMesh ==
  LET T == ThingMeshes(idx - 1)
  IN  /\ Len(things) = Cardinality(T)
      /\ Len(colliders) = Cardinality(BrushMeshes(idx - 1))
      /\ \A k \in 1..Len(things) :
           LET name == meshes[Nth(T, k)].name
               parsed == parseFormula(SubSeq(name, 3, Len(name)))
           IN  /\ parsed.kind = "ok"
               /\ things[k].typeName = parsed.typeName
               /\ things[k].config = parsed.config

\* "f.door(3)" then "f.crate": two Things, in that order
C6_Witness ==
  /\ status = "returned"
  /\ Len(things) = 2
  /\ things[1].typeName = Door
  /\ things[1].config = (<<"0">> :> <<"3">>)
  /\ things[2].typeName = Crate
  /\ things[2].config = EmptyMap
  /\ colliders = <<>>

\* The plane the brush builder derives from face number i alone
PlaneOfTriangle(mesh, i) ==
  LET A == mesh.vertices[mesh.faces[i].i1 + 1]
      B == mesh.vertices[mesh.faces[i].i2 + 1]
      C == mesh.vertices[mesh.faces[i].i3 + 1]
      normal == normalize(crossProduct(VecSub(B, A), VecSub(C, A)))
  IN  [normal |-> normal, offset |-> dotProduct(normal, A)]

\* C10: the Convex appended for a collision mesh starts with one plane per
\* triangle, in face order, plane i being normalize(cross(B-A, C-A)) with
\* offset dot(normal, A) of triangle i; equal planes are all kept.
C10_OnePlanePerTriangle ==
  LET B == BrushMeshes(idx - 1)
  IN  /\ Len(colliders) = Cardinality(B)
      /\ \A k \in 1..Len(colliders) :
           LET mesh == meshes[Nth(B, k)]
           IN  /\ Len(colliders[k].planes) >= Len(mesh.faces)
               /\ \A i \in 1..Len(mesh.faces) :
                    colliders[k].planes[i] = PlaneOfTriangle(mesh, i)

\* a brush of two triangles with the same plane holds that plane twice
C10_Witness ==
  /\ status = "returned"
  /\ Len(colliders) >= 1
  /\ Len(meshes[Nth(BrushMeshes(idx - 1), 1)].faces) = 2
  /\ Len(colliders[1].planes) >= 2
  /\ colliders[1].planes[1] = colliders[1].planes[2]
  /\ colliders[1].planes[1].normal # {}

\* text is derivable in full from the grammar rule call
IsIdentifier(t) == Len(t) >= 1 /\ \A k \in 1..Len(t) : isIdentifierChar(t[k])

IsQuotedString(t) ==
  /\ Len(t) >= 2
  /\ t[1] = Quote
  /\ t[Len(t)] = Quote
  /\ \A k \in 2..(Len(t) - 1) : t[k] # Quote

IsArg(t) == IsIdentifier(t) \/ IsQuotedString(t)

RECURSIVE IsArgList(_)
IsArgList(t) ==
  \E m \in 1..Len(t) :
    /\ IsArg(SubSeq(t, 1, m))
    /\ \/ m = Len(t)
       \/ m < Len(t) /\ t[m + 1] = "," /\ IsArgList(SubSeq(t, m + 2, Len(t)))

Derivable(t) ==
  \E k \in 1..Len(t) :
    /\ IsIdentifier(SubSeq(t, 1, k))
    /\ \/ k = Len(t)
       \/ /\ Len(t) >= k + 2
          /\ t[k + 1] = "("
          /\ t[Len(t)] = ")"
          /\ \/ Len(t) = k + 2
             \/ IsArgList(SubSeq(t, k + 2, Len(t) - 1))

\* C9: an "f." mesh (with vertices, not "f.start") whose formula text is
\* not derivable in full from the grammar makes loadRoom fail with a parse
\* error: it is never handled successfully, and the load does not end in
\* any other way on it.
C9_MalformedFormulaFailsLoad ==
  \A j \in ThingMeshes(Len(meshes)) :
    ~Derivable(SubSeq(meshes[j].name, 3, Len(meshes[j].name)))
      => /\ j >= idx
         /\ (j = idx => status \in {"loading", "parse_error"})

----------------------------------------------------------------------------
(* Properties of the formula parser *)

Called == result # NotCalled

\* The decimal string of i < 100
Decimal(i) ==
  IF i < 10 THEN <<Digits[i + 1]>>
  ELSE <<Digits[(i \div 10) + 1], Digits[(i % 10) + 1]>>

\* C7: for name and for name(a0,...,a(n-1)), parseFormula returns
\* typeName = name and a config of exactly n entries, "i" |-> a_i.
C7_ConfigIsArgumentsByIndex ==
  \A n \in GenNames :
    /\ (Called /\ formula = n)
         => /\ result.kind = "ok"
            /\ result.typeName = n
            /\ result.config = EmptyMap
    /\ \A as \in GenArgLists :
         (Called /\ formula = Format(n, as))
           => /\ result.kind = "ok"
              /\ result.typeName = n
              /\ DOMAIN result.config = {Decimal(i) : i \in 0..(Len(as) - 1)}
              /\ Cardinality(DOMAIN result.config) = Len(as)
              /\ \A i \in 0..(Len(as) - 1) :
                   result.config[Decimal(i)] = as[i + 1].val

\* door(a1,32,...) with twelve arguments has been parsed: keys "0" to "11"
C7_Witness ==
  /\ Called
  /\ formula = Format(Door, LongArgs)
  /\ result.kind = "ok"
  /\ result.config[<<"1", "1">>] = <<"3", "2">>
  /\ result.config[<<"0">>] = <<"a", "1">>

\* A '(' follows the leading identifier and no ')' follows it anywhere
OpensWithoutClosing(t) ==
  \E p \in 1..Len(t) :
    /\ t[p] = "("
    /\ \A q \in 1..(p - 1) : isIdentifierChar(t[q])
    /\ \A q \in (p + 1)..Len(t) : t[q] # ")"

\* C8: a text with an unmatched '(' or with two arguments not separated by
\* ',' makes the parser fail with the parse error "Expected '<token>'".
C8_UnclosedOrUnseparatedIsParseError ==
  (Called /\ (OpensWithoutClosing(formula) \/ formula \in MissingCommaTexts))
    => (result.kind = "error" /\ result.what = "Expected ','")

----------------------------------------------------------------------------
(* bevelSharpEdges called on its own *)

\* a unit cube: vertex k has bit 0 of k as x, bit 1 as y, bit 2 as z
VerticesC ==
  [k \in 1..8 |->
     Vtx(2 * ((k - 1) % 2), 2 * (((k - 1) \div 2) % 2), 2 * ((k - 1) \div 4))]

\* two outward triangles on each of the six faces
GeomCube ==
  [vertices |-> VerticesC,
   faces |-> << Tri(0, 2, 3), Tri(0, 3, 1), Tri(4, 5, 7), Tri(4, 7, 6),
                Tri(0, 1, 5), Tri(0, 5, 4), Tri(2, 7, 3), Tri(2, 6, 7),
                Tri(0, 4, 6), Tri(0, 6, 2), Tri(1, 3, 7), Tri(1, 7, 5) >>]

\* three triangles around the edge from vertex 0 to vertex 1
GeomFan ==
  [vertices |-> VerticesA,
   faces |-> <<Tri(0, 1, 2), Tri(0, 3, 1), Tri(0, 1, 3)>>]
\* a tetrahedron with a sliver on one of its edges and a fin on another
GeomMixed ==
  [vertices |-> VerticesA,
   faces |-> <<Tri(0, 2, 1), Tri(0, 1, 3), Tri(0, 3, 2), Tri(1, 2, 3),
               Tri(2, 2, 3)>>]

MaxPermuted == 4

Permuted(seq, p) == [k \in 1..Len(seq) |-> seq[p[k]]]

Swap(n, i, j) ==
  [k \in 1..n |-> IF k = i THEN j ELSE IF k = j THEN i ELSE k]

\* Reorderings of a face list: all of them for a short list, the exchanges
\* of two faces for a long one
Reorderings(n) ==
  IF n <= MaxPermuted THEN Permutations(1..n)
  ELSE {Swap(n, i, j) : i, j \in 1..n}

BevelGeometries ==
  Geometries \cup {GeomCube, GeomFan, GeomMixed}

BevelMeshes ==
  UNION { { MkMesh(Wall, [vertices |-> g.vertices,
                          faces |-> Permuted(g.faces, p)]) :
              p \in Reorderings(Len(g.faces)) } : g \in BevelGeometries }

\* The Convex bevelSharpEdges is handed: the face planes, as loadRoom does,
\* nothing, or planes that have nothing to do with the mesh
ForeignPlanes ==
  << [normal |-> {Vec(0, 0, 1)}, offset |-> [d \in {Vec(0, 0, 1)} |-> 5]],
     [normal |-> {}, offset |-> [d \in {} |-> 0]] >>

BevelBrushes(mesh) ==
  { [planes |-> facePlanes(mesh, 1)], [planes |-> <<>>],
    [planes |-> ForeignPlanes] }

InitBevel ==
  /\ bevelMesh \in BevelMeshes
  /\ bevelBrush \in BevelBrushes(bevelMesh)
  /\ bevelCalled = FALSE
  /\ LoaderIdle
  /\ FormulaIdle
  /\ ReloadIdle
  /\ ParserIdle
  /\ EntitiesIdle

\* bevelSharpEdges(mesh, brush)
CallBevel ==
  /\ ~bevelCalled
  /\ bevelBrush' = bevelSharpEdges(bevelMesh, bevelBrush)
  /\ bevelCalled' = TRUE
  /\ UNCHANGED <<bevelMesh, loaderVars, formulaVars, reloadVars, parser,
                 entityVars>>

NextBevel == CallBevel

SpecBevel == InitBevel /\ [][NextBevel]_vars

\* the planes bevelSharpEdges adds to a brush that had n planes
Appended(brush, n) == SubSeq(brush.planes, n + 1, Len(brush.planes))

IsPrefix(s, t) == Len(s) <= Len(t) /\ SubSeq(t, 1, Len(s)) = s

\* C11: bevelSharpEdges only adds: the planes the brush held before the
\* call are, unchanged and in place, the first planes it holds afterwards,
\* so it never holds fewer planes than before, and the mesh is as it was.
C11_BevelOnlyAppends ==
  [][ /\ IsPrefix(bevelBrush.planes, bevelBrush'.planes)
      /\ Len(bevelBrush'.planes) >= Len(bevelBrush.planes)
      /\ bevelMesh' = bevelMesh ]_vars

\* the outward tetrahedron, its four face planes followed by six bevels
C11_Witness ==
  /\ bevelCalled
  /\ bevelMesh.faces = GeomTetrahedron.faces
  /\ bevelMesh.vertices = VerticesA
  /\ Len(bevelBrush.planes) = 10
  /\ SubSeq(bevelBrush.planes, 1, 4) = facePlanes(bevelMesh, 1)

----------------------------------------------------------------------------
(* Edges and incident triangles of a mesh, counted on the mesh itself *)

\* the three sides of face number k, as unordered pairs of positions
Sides(mesh, k) ==
  LET f == mesh.faces[k]
      A == toVector3f(vertexAt(mesh, f.i1))
      B == toVector3f(vertexAt(mesh, f.i2))
      C == toVector3f(vertexAt(mesh, f.i3))
  IN  {EdgeIdMk(A, B), EdgeIdMk(B, C), EdgeIdMk(C, A)}

MeshEdges(mesh) == UNION {Sides(mesh, k) : k \in 1..Len(mesh.faces)}

\* the triangles that have e as a side
IncidentFaces(mesh, e) == {k \in 1..Len(mesh.faces) : e \in Sides(mesh, k)}

FaceNormal(mesh, k) ==
  computeNormal(mesh, mesh.faces[k].i1, mesh.faces[k].i2, mesh.faces[k].i3)

\* dot(N1, N2) <= 0 for two normalised face normals
DotNotPositive(N1, N2) == \E d1 \in N1, d2 \in N2 : Dot(d1, d2) <= 0

\* an edge shared by exactly two triangles whose normals have a dot product
\* of at most 0
IsSharpEdge(mesh, e) ==
  /\ Cardinality(IncidentFaces(mesh, e)) = 2
  /\ \E j, k \in IncidentFaces(mesh, e) :
       j # k /\ DotNotPositive(FaceNormal(mesh, j), FaceNormal(mesh, k))

SharpEdges(mesh) == {e \in MeshEdges(mesh) : IsSharpEdge(mesh, e)}

\* C12: bevelSharpEdges appends as many planes as the mesh has distinct
\* undirected edges with exactly two incident triangles whose normals have
\* a dot product <= 0; for the unit cube of 12 triangles that is 12.
C12_OnePlanePerSharpEdge ==
  [][ bevelCalled' /\ ~bevelCalled =>
        /\ Len(bevelBrush'.planes) - Len(bevelBrush.planes)
             = Cardinality(SharpEdges(bevelMesh))
        /\ (bevelMesh.vertices = VerticesC =>
              Len(bevelBrush'.planes) - Len(bevelBrush.planes) = 12) ]_vars

\* every triangle of the mesh has three distinct, non-collinear corners
NoDegenerateFace(mesh) == \A k \in 1..Len(mesh.faces) : FaceNormal(mesh, k) # {}

----------------------------------------------------------------------------
(* loadRoom called a second time on the same meshes *)

TheRoom == [start |-> start, colliders |-> colliders, things |-> things,
            valid |-> TRUE]

\* The caller keeps the Room it was returned and calls loadRoom again:
\* Room r is a fresh local and importMesh yields the same list
Reload ==
  /\ status = "returned"
  /\ run = 1
  /\ firstRoom' = TheRoom
  /\ run' = 2
  /\ idx' = 1
  /\ start' = Vec(0, 0, 2)
  /\ colliders' = <<>>
  /\ things' = <<>>
  /\ status' = "loading"
  /\ UNCHANGED <<meshes, formulaVars, bevelVars, parser, entityVars>>

NextReload == Next \/ Reload

SpecReload == Init /\ [][NextReload]_vars

\* C13: loadRoom is deterministic: a second call on the same ordered mesh
\* list returns the Room the first call returned (same start, same things
\* in the same order, same colliders plane by plane).
C13_SecondRunReturnsSameRoom ==
  run = 2 /\ status = "returned" => TheRoom = firstRoom

----------------------------------------------------------------------------
(* Bevel planes, edge by edge *)

\* The bevel plane of an edge with the two incident triangles j and k
BevelPlaneOf(mesh, e, j, k) ==
  LET N3 == normalizeSum(FaceNormal(mesh, j), FaceNormal(mesh, k))
  IN  [normal |-> N3, offset |-> dotProduct(N3, e.v1)]

\* p is the bevel plane of some edge of the mesh with exactly two incident
\* triangles
IsPlaneOfTwoFaceEdge(mesh, p) ==
  \E e \in MeshEdges(mesh) :
    /\ Cardinality(IncidentFaces(mesh, e)) = 2
    /\ \E j, k \in IncidentFaces(mesh, e) :
         j # k /\ p = BevelPlaneOf(mesh, e, j, k)

\* C14: an edge whose number of incident triangles is not 2 gets no bevel
\* plane: every plane appended after the face planes of a brush is the
\* bevel plane of an edge with exactly two incident triangles; the sharp
\* edges of the same mesh all have theirs; and the load goes on: a
\* collision mesh always ends with its brush appended and the loop on the
\* next mesh.
C14_OddEdgeSkippedLoadGoesOn ==
  LET B == BrushMeshes(idx - 1)
  IN  /\ Len(colliders) = Cardinality(B)
      /\ \A k \in 1..Len(colliders) :
           LET mesh == meshes[Nth(B, k)]
               added == Appended(colliders[k], Len(mesh.faces))
           IN  /\ \A i \in 1..Len(added) : IsPlaneOfTwoFaceEdge(mesh, added[i])
               /\ \A e \in SharpEdges(mesh) :
                    \E i \in 1..Len(added) :
                      \E j, n \in IncidentFaces(mesh, e) :
                        j # n /\ added[i] = BevelPlaneOf(mesh, e, j, n)
      /\ status \in {"loading", "returned"} =>
           \A k \in 1..(idx - 1) :
             route(meshes[k]) = "brush" => k \in B

----------------------------------------------------------------------------
(* Order of the faces *)

Reordered(mesh, p) ==
  [name |-> mesh.name, vertices |-> mesh.vertices,
   faces |-> Permuted(mesh.faces, p)]

\* the sharp edges in ascending order of their key
SharpEdgeAt(mesh, i) ==
  CHOOSE e \in SharpEdges(mesh) :
    Cardinality({o \in SharpEdges(mesh) : EdgeLess(o, e)}) = i - 1

\* C15: the planes bevelSharpEdges appends do not depend on the order of
\* mesh.faces (hence not on which of two incident faces is recorded first)
\* nor on the planes the brush holds: the call on any reordering of the
\* faces, and on any other brush, appends the same planes in the same
\* order.  On a mesh without degenerate triangle that order is the
\* ascending order of the edge keys, and the plane of an edge has the
\* normalised sum of the two face normals, with its offset taken at the
\* smaller endpoint.
C15_BevelIgnoresFaceOrder ==
  [][ bevelCalled' /\ ~bevelCalled =>
        LET n == Len(bevelBrush.planes)
            added == Appended(bevelBrush', n)
        IN  /\ \A p \in Reorderings(Len(bevelMesh.faces)) :
                 bevelSharpEdges(Reordered(bevelMesh, p), bevelBrush)
                   = bevelBrush'
            /\ \A b \in BevelBrushes(bevelMesh) :
                 Appended(bevelSharpEdges(bevelMesh, b), Len(b.planes)) = added
            /\ NoDegenerateFace(bevelMesh) =>
                 /\ Len(added) = Cardinality(SharpEdges(bevelMesh))
                 /\ \A i \in 1..Len(added) :
                      LET e == SharpEdgeAt(bevelMesh, i)
                      IN  \E j, k \in IncidentFaces(bevelMesh, e) :
                            j # k /\ added[i] = BevelPlaneOf(bevelMesh, e, j, k)
      ]_vars

\* the cube after the call: twelve planes after the two unrelated ones,
\* the first of them on the edge from (0,0,0) to (0,0,1)
C15_Witness ==
  /\ bevelCalled
  /\ bevelMesh.vertices = VerticesC
  /\ bevelMesh.faces # GeomCube.faces
  /\ Len(bevelBrush.planes) = 14
  /\ SubSeq(bevelBrush.planes, 1, 2) = ForeignPlanes
  /\ bevelBrush.planes[3].normal = {Vec(-1, 0, 0), Vec(0, -1, 0)}

----------------------------------------------------------------------------
\* C16: every plane of every Convex of the room has a well-defined unit
\* normal: no plane, face plane or bevel plane, has the normalisation of
\* the zero vector as its normal.
C16_EveryNormalIsDefined ==
  \A k \in 1..Len(colliders) :
    \A i \in 1..Len(colliders[k].planes) :
      colliders[k].planes[i].normal # {}

----------------------------------------------------------------------------
(* parseCall, one loop iteration at a time.  parser.pos is the stream       *)
(* pointer, parser.r the string a parseIdentifier or parseString call is   *)
(* building, parser.words the vector r of parseCall.                       *)

\* the longest string the allocator serves
MaxAlloc == 8

InitParse ==
  /\ parser \in { [pc |-> "name", content |-> t, pos |-> 1, r |-> <<>>,
                   words |-> <<>>, first |-> TRUE] : t \in FormulaInputs }
  /\ LoaderIdle
  /\ FormulaIdle
  /\ ReloadIdle
  /\ BevelIdle
  /\ EntitiesIdle

parserHead == head(parser.content, parser.pos)

parserAccepts(what) == accept(parser.content, parser.pos, what)

otherVars == <<loaderVars, formulaVars, reloadVars, bevelVars, entityVars>>

\* parseIdentifier: char c = head(); accept(c); r += c;
IdentifierStep ==
  /\ parser.pc \in {"name", "ident"}
  /\ isIdentifierChar(parserHead)
  /\ Len(parser.r) < MaxAlloc
  /\ parser' = [parser EXCEPT !.pos = @ + 1, !.r = Append(@, parserHead)]
  /\ UNCHANGED otherVars

\* parseIdentifier returns.  The first identifier is pushed and followed
\* by if(accept('(')); an argument is pushed and followed by first = false
IdentifierEnd ==
  /\ parser.pc \in {"name", "ident"}
  /\ ~isIdentifierChar(parserHead)
  /\ parser' =
       IF parser.pc = "ident"
       THEN [parser EXCEPT !.words = Append(@, parser.r), !.r = <<>>,
                           !.first = FALSE, !.pc = "args"]
       ELSE IF parserAccepts("(")
       THEN [parser EXCEPT !.words = Append(@, parser.r), !.r = <<>>,
                           !.pos = @ + 1, !.pc = "args"]
       ELSE [parser EXCEPT !.words = Append(@, parser.r), !.r = <<>>,
                           !.pc = "returned"]
  /\ UNCHANGED otherVars

\* while(!accept(')')) ends; return r
ListEnd ==
  /\ parser.pc = "args"
  /\ parserAccepts(")")
  /\ parser' = [parser EXCEPT !.pos = @ + 1, !.pc = "returned"]
  /\ UNCHANGED otherVars

\* if(!first) expect(',') throws
ExpectFails ==
  /\ parser.pc = "args"
  /\ ~parserAccepts(")")
  /\ ~parser.first
  /\ ~parserAccepts(",")
  /\ parser' = [parser EXCEPT !.pc = "parse_error"]
  /\ UNCHANGED otherVars

\* if(!first) expect(','); then parseArgument: if(accept('"')) parseString
\* else parseIdentifier
ArgumentBegins ==
  /\ parser.pc = "args"
  /\ ~parserAccepts(")")
  /\ parser.first \/ parserAccepts(",")
  /\ LET at == IF parser.first THEN parser.pos ELSE parser.pos + 1
     IN  parser' =
           IF accept(parser.content, at, Quote)
           THEN [parser EXCEPT !.pos = at + 1, !.r = <<>>, !.pc = "string"]
           ELSE [parser EXCEPT !.pos = at, !.r = <<>>, !.pc = "ident"]
  /\ UNCHANGED otherVars

\* parseString: while(!accept('"')) { char c = head(); accept(c); r += c; }
\* accept refuses to advance on '\0'
StringStep ==
  /\ parser.pc = "string"
  /\ ~parserAccepts(Quote)
  /\ Len(parser.r) < MaxAlloc
  /\ parser' = [parser EXCEPT
                  !.pos = IF parserAccepts(parserHead) THEN @ + 1 ELSE @,
                  !.r = Append(@, parserHead)]
  /\ UNCHANGED otherVars

\* while(!accept('"')) ends; the string is pushed, first = false
StringEnd ==
  /\ parser.pc = "string"
  /\ parserAccepts(Quote)
  /\ parser' = [parser EXCEPT !.pos = @ + 1, !.words = Append(@, parser.r),
                              !.r = <<>>, !.first = FALSE, !.pc = "args"]
  /\ UNCHANGED otherVars

\* r += c when the string cannot grow: std::bad_alloc leaves parseCall
AllocationFails ==
  /\ \/ parser.pc \in {"name", "ident"} /\ isIdentifierChar(parserHead)
     \/ parser.pc = "string" /\ ~parserAccepts(Quote)
  /\ Len(parser.r) >= MaxAlloc
  /\ parser' = [parser EXCEPT !.pc = "bad_alloc"]
  /\ UNCHANGED otherVars

NextParse ==
  \/ IdentifierStep
  \/ IdentifierEnd
  \/ ListEnd
  \/ ExpectFails
  \/ ArgumentBegins
  \/ StringStep
  \/ StringEnd
  \/ AllocationFails

SpecParse == InitParse /\ [][NextParse]_vars

\* C17: parseCall terminates on every text: it returns or raises a parse
\* error, never ends otherwise, never moves the stream pointer past the end
\* of the text, and every iteration of the identifier loop and of the
\* quoted-string loop (one more character in r) advances the stream pointer.
C17_ParseCallTerminates ==
  [][ /\ parser'.pc # "bad_alloc"
      /\ parser'.pos <= Len(parser.content) + 1
      /\ Len(parser'.r) > Len(parser.r) => parser'.pos > parser.pos ]_vars

----------------------------------------------------------------------------
(* Reads of the loop body *)

\* i is an index into mesh.vertices
IsVertexIndex(mesh, i) == 0 <= i /\ i < Len(mesh.vertices)

\* the Mesh invariant: every index of every face is valid
MeshInvariant(mesh) ==
  \A k \in 1..Len(mesh.faces) :
    /\ IsVertexIndex(mesh, mesh.faces[k].i1)
    /\ IsVertexIndex(mesh, mesh.faces[k].i2)
    /\ IsVertexIndex(mesh, mesh.faces[k].i3)

\* C18: on mesh lists that satisfy the Mesh invariant, the loop body never
\* reads a face or a vertex that is not there: a spawn marker has a
\* faces[0] whose first index is valid when it is read, a collision mesh
\* has valid indices, and a formula that parses has a first token.
C18_NoReadOutOfBounds ==
  (\A k \in 1..Len(meshes) : MeshInvariant(meshes[k])) /\ InLoop =>
    /\ route(thisMesh) = "spawn" =>
         /\ Len(thisMesh.faces) >= 1
         /\ IsVertexIndex(thisMesh, thisMesh.faces[1].i1)
    /\ route(thisMesh) = "brush" => MeshInvariant(thisMesh)
    /\ route(thisMesh) = "thing" =>
         LET call == parseCall(substr(thisMesh.name, 2, Len(thisMesh.name)))
         IN  call.kind = "ok" => Len(call.words) >= 1

----------------------------------------------------------------------------
(* The door entities (src/src/entities/door.cpp).  Heights are in          *)
(* thousandths of a unit; sound is the number of game->playSound(SND_DOOR) *)
(* calls the last handler made.                                            *)

MaxDoorId == 2

\* timer = 1500
TimerStart == 1500
\* pos.z - basePos.z < 2.3
OpenHeight == 2300
\* Up * 0.004, Down * 0.004
MoveStep == 4
\* pos.z - basePos.z > 0.001
ClosedHeight == 1

DoorIds == 0..MaxDoorId

\* What notify can be handed: a TriggerEvent with its idx, or another event
Events ==
  {[type |-> "TriggerEvent", idx |-> i] : i \in DoorIds}
  \cup {[type |-> "OtherEvent", idx |-> 0]}

InitDoors ==
  /\ autoDoor = [state |-> "Closed", timer |-> 0, height |-> 0]
  /\ door \in {[id |-> i, solid |-> TRUE] : i \in DoorIds}
  /\ sound = 0
  /\ LoaderIdle
  /\ FormulaIdle
  /\ ReloadIdle
  /\ BevelIdle
  /\ ParserIdle

\* decrement(timer): counts down to zero and tells whether zero is reached
decrement(val) ==
  LET next == IF val > 0 THEN val - 1 ELSE val
  IN  [val |-> next, ret |-> next = 0]

\* physics->moveBody(this, delta): the body moves by delta, or is blocked
moveBody(height, delta) == {height, height + delta}

notEntityVars == <<loaderVars, formulaVars, reloadVars, bevelVars, parser>>

\* AutoDoor::tick
AutoDoorTick ==
  /\ autoDoor.state \in {"Closed", "Opening", "Open", "Closing"}
  /\ CASE autoDoor.state = "Closed" ->
            autoDoor' = autoDoor /\ sound' = 0
       [] autoDoor.state = "Opening" ->
            /\ IF autoDoor.height < OpenHeight
               THEN \E h \in moveBody(autoDoor.height, MoveStep) :
                      autoDoor' = [autoDoor EXCEPT !.height = h]
               ELSE autoDoor' = [autoDoor EXCEPT !.state = "Open"]
            /\ sound' = 0
       [] autoDoor.state = "Open" ->
            LET d == decrement(autoDoor.timer)
            IN  IF d.ret
                THEN /\ autoDoor' = [autoDoor EXCEPT !.timer = d.val,
                                                     !.state = "Closing"]
                     /\ sound' = 1
                ELSE /\ autoDoor' = [autoDoor EXCEPT !.timer = d.val]
                     /\ sound' = 0
       [] autoDoor.state = "Closing" ->
            /\ IF autoDoor.height > ClosedHeight
               THEN \E h \in moveBody(autoDoor.height, -MoveStep) :
                      autoDoor' = [autoDoor EXCEPT !.height = h]
               ELSE autoDoor' = [autoDoor EXCEPT !.state = "Closed"]
            /\ sound' = 0
  /\ UNCHANGED <<door, notEntityVars>>

\* an onSwitch that reopens the door whatever its state
AutoDoorSwitchAlways ==
  /\ autoDoor.state \in {"Closed", "Opening", "Open", "Closing"}
  /\ autoDoor' = [autoDoor EXCEPT !.state = "Opening", !.timer = TimerStart]
  /\ sound' = 1
  /\ UNCHANGED <<door, notEntityVars>>

\* AutoDoor::onSwitch
AutoDoorSwitch ==
  /\ autoDoor.state \in {"Closed", "Opening", "Open", "Closing"}
  /\ IF autoDoor.state # "Closed"
     THEN autoDoor' = autoDoor /\ sound' = 0
     ELSE /\ autoDoor' = [autoDoor EXCEPT !.state = "Opening",
                                          !.timer = TimerStart]
          /\ sound' = 1
  /\ UNCHANGED <<door, notEntityVars>>

\* Door::tick
DoorTick ==
  /\ autoDoor.state # "none"
  /\ sound' = 0
  /\ UNCHANGED <<door, autoDoor, notEntityVars>>

\* a notify that opens on a TriggerEvent of any idx
DoorNotifyAnyIdx(evt) ==
  /\ autoDoor.state # "none"
  /\ IF ~door.solid THEN door' = door /\ sound' = 0
     ELSE IF evt.type = "TriggerEvent"
     THEN door' = [door EXCEPT !.solid = FALSE] /\ sound' = 1
     ELSE door' = door /\ sound' = 0
  /\ UNCHANGED <<autoDoor, notEntityVars>>

\* Door::notify(evt)
DoorNotify(evt) ==
  /\ autoDoor.state # "none"
  /\ IF ~door.solid THEN door' = door /\ sound' = 0
     ELSE IF evt.type = "TriggerEvent"
     THEN IF evt.idx # door.id
          THEN door' = door /\ sound' = 0
          ELSE door' = [door EXCEPT !.solid = FALSE] /\ sound' = 1
     ELSE door' = door /\ sound' = 0
  /\ UNCHANGED <<autoDoor, notEntityVars>>

NextDoors ==
  \/ AutoDoorTick
  \/ AutoDoorSwitch
  \/ DoorTick
  \/ \E evt \in Events : DoorNotify(evt)

SpecDoors == InitDoors /\ [][NextDoors]_vars

\* the cycle of AutoDoor::State
StateCycle ==
  { <<"Closed", "Opening">>, <<"Opening", "Open">>, <<"Open", "Closing">>,
    <<"Closing", "Closed">> }

\* C19: AutoDoor.state only moves one step along Closed -> Opening -> Open
\* -> Closing -> Closed.  onSwitch takes a Closed door to Opening with
\* timer = 1500 (and plays the sound) and changes nothing, without sound,
\* in any other state; tick leaves a Closed door alone, and the door leaves
\* Open only for Closing, with the timer at zero.
C19_AutoDoorFollowsCycle ==
  [][ /\ autoDoor'.state # autoDoor.state =>
           <<autoDoor.state, autoDoor'.state>> \in StateCycle
      /\ AutoDoorSwitch =>
           IF autoDoor.state = "Closed"
           THEN /\ autoDoor'.state = "Opening"
                /\ autoDoor'.timer = TimerStart
                /\ sound' = 1
           ELSE autoDoor' = autoDoor /\ sound' = 0
      /\ AutoDoorTick /\ autoDoor.state = "Closed" => autoDoor' = autoDoor
      /\ autoDoor.state = "Closed" /\ autoDoor'.state # "Closed" =>
           autoDoor'.timer = TimerStart /\ sound' = 1
      /\ autoDoor.state = "Open" /\ autoDoor'.state # "Open" =>
           autoDoor'.state = "Closing" /\ autoDoor'.timer = 0 ]_vars

\* a door on its way down after staying open until the timer ran out
C19_Witness ==
  /\ autoDoor.state = "Closing"
  /\ autoDoor.timer = 0
  /\ autoDoor.height < OpenHeight
  /\ autoDoor.height > ClosedHeight

\* C20: a Door is a one-way latch.  It is solid until notify is handed a
\* TriggerEvent whose idx is its id, which makes it non-solid and plays the
\* door sound once; a non-solid door stays non-solid.  A TriggerEvent with
\* another idx, another event, any event handed to a non-solid door, and
\* tick change nothing and play no sound.  The id never changes.
C20_DoorIsOneWayLatch ==
  [][ /\ ~door.solid => ~door'.solid
      /\ door'.id = door.id
      /\ \A evt \in Events :
           DoorNotify(evt) =>
             IF door.solid /\ evt.type = "TriggerEvent" /\ evt.idx = door.id
             THEN ~door'.solid /\ sound' = 1
             ELSE door' = door /\ sound' = 0
      /\ DoorTick => door' = door /\ sound' = 0
      /\ door'.solid # door.solid => sound' = 1 ]_vars

\* the door of id 1, opened, with the sound of the opening just played
C20_Witness ==
  /\ door.id = 1
  /\ ~door.solid
  /\ sound = 1
  /\ autoDoor.state = "Closed"

============================================================================
